---- MODULE Spec2Model ----
\* A model of gentoomaniac/ebitmx: the Tiled map loader (tile reference codec,
\* tileset atlas slicing, layer decoding, map load).
\*
\* src/ebitmx.go is the current form of the library; src/unnamed/part_000 holds
\* earlier iterations of the same module. The variable rev names the iteration
\* a behaviour runs: "ebitmx" (src/ebitmx.go) or "viewport"
\* (src/unnamed/part_000, lines 590-989).
EXTENDS Integers, Naturals, Sequences, FiniteSets, TLC

VARIABLES
    codec,      \* the tile reference codec under test: its input cell and result
    rev,        \* which iteration of the module runs
    pc,         \* position of LoadFromFile
    gameMap,    \* the *TmxMap being loaded
    idx,        \* loop index of the running loop of LoadFromFile
    ret,        \* what each LoadFromTsx and DecodeData call made so far returned
    result,     \* what LoadFromFile returned (or how it ended)
    query,      \* the last spatial query made on the loaded map and its outcome
    render      \* the render caches of the layers and the last Render call

vars == <<codec, rev, pc, gameMap, idx, ret, result, query, render>>

\* ---------------------------------------------------------------------------
\* uint32 arithmetic. A uint32 is held as two 16-bit halves, so that every
\* value of the 32-bit range is representable.
\* ---------------------------------------------------------------------------

RECURSIVE And16(_, _, _)
And16(a, b, n) ==
    IF n = 0 THEN 0
    ELSE (IF a % 2 = 1 /\ b % 2 = 1 THEN 1 ELSE 0) + 2 * And16(a \div 2, b \div 2, n - 1)

RECURSIVE Or16(_, _, _)
Or16(a, b, n) ==
    IF n = 0 THEN 0
    ELSE (IF a % 2 = 1 \/ b % 2 = 1 THEN 1 ELSE 0) + 2 * Or16(a \div 2, b \div 2, n - 1)

RECURSIVE Xor16(_, _, _)
Xor16(a, b, n) ==
    IF n = 0 THEN 0
    ELSE (IF a % 2 # b % 2 THEN 1 ELSE 0) + 2 * Xor16(a \div 2, b \div 2, n - 1)

\* uint32(b) for a byte b
U32(b) == [hi |-> 0, lo |-> b]

\* x & y, x | y, x ^ y on uint32
And32(x, y) == [hi |-> And16(x.hi, y.hi, 16), lo |-> And16(x.lo, y.lo, 16)]
Or32(x, y) == [hi |-> Or16(x.hi, y.hi, 16), lo |-> Or16(x.lo, y.lo, 16)]
Xor32(x, y) == [hi |-> Xor16(x.hi, y.hi, 16), lo |-> Xor16(x.lo, y.lo, 16)]

\* x << 8 on uint32 (bits shifted past bit 31 are lost)
Shl8(x) == [hi |-> (x.hi % 256) * 256 + (x.lo \div 256), lo |-> (x.lo % 256) * 256]

\* x > y on uint32 (unsigned magnitude comparison)
Gt32(x, y) == x.hi > y.hi \/ (x.hi = y.hi /\ x.lo > y.lo)

\* the numeric value of a uint32 below 2^31
ToInt(x) == x.hi * 65536 + x.lo

\* ---------------------------------------------------------------------------
\* Tile reference codec
\* ---------------------------------------------------------------------------

FLIPPED_HORIZONTALLY_FLAG == [hi |-> 32768, lo |-> 0]    \* 0x80000000
FLIPPED_VERTICALLY_FLAG == [hi |-> 16384, lo |-> 0]      \* 0x40000000
FLIPPED_DIAGONALLY_FLAG == [hi |-> 8192, lo |-> 0]       \* 0x20000000
AllOnes32 == [hi |-> 65535, lo |-> 65535]                \* 0xffffffff

\* the four bytes assembled most significant first
EncodedIDBigEndian(data) ==
    Or32(Or32(Or32(U32(data[4]), Shl8(U32(data[3]))), Shl8(Shl8(U32(data[2])))),
         Shl8(Shl8(Shl8(U32(data[1])))))

\* encodedID := uint32(data[0]) | uint32(data[1])<<8 | uint32(data[2])<<16 | uint32(data[3])<<24
\* (data is 1-based here)
EncodedID(data) ==
    Or32(Or32(Or32(U32(data[1]), Shl8(U32(data[2]))), Shl8(Shl8(U32(data[3])))),
         Shl8(Shl8(Shl8(U32(data[4])))))

\* a flag test whose threshold is a flag value rather than 1
FlagSetAboveDiagonal(encodedID, flag) ==
    Gt32(And32(encodedID, flag), FLIPPED_DIAGONALLY_FLAG)

\* (encodedID & FLAG) > 1
FlagSet(encodedID, flag) == Gt32(And32(encodedID, flag), U32(1))

\* (FLIPPED_DIAGONALLY_FLAG | FLIPPED_HORIZONTALLY_FLAG | FLIPPED_VERTICALLY_FLAG) ^ 0xffffffff
TileIDMask ==
    Xor32(Or32(Or32(FLIPPED_DIAGONALLY_FLAG, FLIPPED_HORIZONTALLY_FLAG),
               FLIPPED_VERTICALLY_FLAG), AllOnes32)

NoTileset == 0      \* the nil *Tileset; a non-nil one is its index in gameMap.Tilesets

TileFromByteArray(data) ==
    LET encodedID == EncodedID(data) IN
    [ GlobalTileID        |-> ToInt(And32(encodedID, TileIDMask)),
      InternalTileID      |-> 0,
      X                   |-> 0,
      Y                   |-> 0,
      FlippedHorizontally |-> FlagSet(encodedID, FLIPPED_HORIZONTALLY_FLAG),
      FlippedVertically   |-> FlagSet(encodedID, FLIPPED_VERTICALLY_FLAG),
      FlippedDiagonally   |-> FlagSet(encodedID, FLIPPED_DIAGONALLY_FLAG),
      Tileset             |-> NoTileset ]

\* The encoder of the cell format (spec section 6): id in the low 29 bits, the
\* flags in bits 31/30/29, written as 4 little-endian bytes.
Pack(id, h, v, d) ==
    << id % 256,
       (id \div 256) % 256,
       (id \div 65536) % 256,
       (id \div 16777216) + (IF d THEN 32 ELSE 0) + (IF v THEN 64 ELSE 0)
                          + (IF h THEN 128 ELSE 0) >>

\* global ids the codec is exercised on: 0, small ids, every byte boundary, 2^29 - 1
CodecIds ==
    {0, 1, 2, 5, 255, 256, 257, 65535, 65536, 16777215, 16777216, 268435456, 536870911}

NoTile == [none |-> TRUE]

CodecIdle == [id |-> 0, h |-> FALSE, v |-> FALSE, d |-> FALSE, data |-> <<0, 0, 0, 0>>,
              tile |-> NoTile]

\* ---------------------------------------------------------------------------
\* Tileset Resolver
\* ---------------------------------------------------------------------------

\* image.Rect(x0, y0, x1, y1): the rectangle, with the corners put in order
ImageRect(x0, y0, x1, y1) ==
    [ Min |-> [X |-> IF x0 > x1 THEN x1 ELSE x0, Y |-> IF y0 > y1 THEN y1 ELSE y0],
      Max |-> [X |-> IF x0 > x1 THEN x0 ELSE x1, Y |-> IF y0 > y1 THEN y0 ELSE y1] ]

\* x0 := (tileNum % t.Columns) * t.TileWidth
TileOriginX(t, tileNum) == (tileNum % t.Columns) * t.TileWidth

\* y0 := (tileNum / t.Columns) * t.TileWidth
TileOriginY(t, tileNum) == (tileNum \div t.Columns) * t.TileWidth

\* tileRectangle of one iteration of the pre-loading loop
TileRectangle(t, tileNum) ==
    LET x0 == TileOriginX(t, tileNum)
        y0 == TileOriginY(t, tileNum)
    IN  ImageRect(x0, y0, x0 + t.TileWidth, y0 + t.TileHeight)

\* A tileset element as the document parser leaves it: FirstGid and Source from
\* the map document, everything LoadFromTsx fills still zero. Source is held
\* as the external description the path leads to.
ParsedTileset(firstGid, tsx) ==
    [ FirstGid |-> firstGid, Source |-> tsx, TileWidth |-> 0, TileHeight |-> 0,
      TileCount |-> 0, Columns |-> 0, HasImage |-> FALSE, Tiles |-> <<>> ]

\* the image file named by tsxFile.Image.Source loads. xml.Unmarshal stops at
\* the first failure and its error is discarded: after a failure in an
\* attribute of the tileset element the image element was never decoded,
\* Image.Source is empty and the path names the directory, which is no image.
ImageLoads(tsx) == tsx.imageOk /\ tsx.parse # "attribute"

\* Tileset.LoadFromTsx: [err, t], err being "nil", "error" or "panic" (a run-time
\* panic: the integer division by a zero column count). Tiles maps each local
\* index to the rectangle its sub-image was cut with.
LoadFromTsx(t) ==
    LET tsx == t.Source
        t1 == [t EXCEPT !.TileWidth = tsx.TileWidth, !.TileHeight = tsx.TileHeight,
                        !.TileCount = tsx.TileCount, !.Columns = tsx.Columns]
        t2 == [t1 EXCEPT !.HasImage = TRUE]
    IN  IF ~tsx.readable THEN [err |-> "error", t |-> t]
        ELSE IF ~ImageLoads(tsx) THEN [err |-> "error", t |-> t1]
        ELSE IF t2.TileCount > 0 /\ t2.Columns = 0 THEN [err |-> "panic", t |-> t2]
        ELSE [err |-> "nil",
              t |-> [t2 EXCEPT !.Tiles =
                        [tileNum \in 0 .. (t2.TileCount - 1) |-> TileRectangle(t2, tileNum)]]]

\* ---------------------------------------------------------------------------
\* Layer Tile Assembler
\* ---------------------------------------------------------------------------

Base64 == "base64"

\* base64.StdEncoding.DecodeString(strings.TrimSpace(l.Data.Text)): the text of a
\* data element either is base64 and stands for a byte stream, or is not and
\* the decoder reports an error.
DecodeString(text) ==
    IF text.valid THEN [err |-> "nil", bytes |-> text.bytes]
    ELSE [err |-> "error", bytes |-> <<>>]

\* the scan stopped at the first tileset that matches
RECURSIVE ResolveFirstFrom(_, _, _, _)
ResolveFirstFrom(gid, tilesets, i, cur) ==
    IF i > Len(tilesets) \/ cur # NoTileset THEN cur
    ELSE ResolveFirstFrom(gid, tilesets, i + 1,
                          IF gid >= tilesets[i].FirstGid THEN i ELSE cur)

ResolveFirstMatch(gid, tilesets) == ResolveFirstFrom(gid, tilesets, 1, NoTileset)

\* the last tileset listed, whatever its FirstGid
ResolveLastListed(gid, tilesets) == Len(tilesets)

\* for i := range gameMap.Tilesets { if GlobalTileID >= FirstGid { Tileset = Tilesets[i] } }
RECURSIVE ResolveFrom(_, _, _, _)
ResolveFrom(gid, tilesets, i, cur) ==
    IF i > Len(tilesets) THEN cur
    ELSE ResolveFrom(gid, tilesets, i + 1,
                     IF gid >= tilesets[i].FirstGid THEN i ELSE cur)

ResolveTileset(gid, tilesets) == ResolveFrom(gid, tilesets, 1, NoTileset)

\* the loop condition that stops one group early
LoopContinuesExclusive(r, i, len) == i < len - 4

\* the condition of the cell loop: i <= len(byteArray)-4 in src/ebitmx.go,
\* i < len(byteArray)-4 in the viewport iteration
LoopContinues(r, i, len) ==
    IF r = "ebitmx" THEN i <= len - 4 ELSE i < len - 4

\* if newTile.GlobalTileID != 0
IsStored(newTile) == newTile.GlobalTileID # 0

\* newTile.X = tileNum % l.Width
TileX(l, tileNum) == tileNum % l.Width

\* newTile.Y = tileNum / l.Height
TileY(l, tileNum) == tileNum \div l.Height

\* The cell loop of DecodeData from byte offset i (0-based) on: [err, Tiles, tileNum].
\* InternalTileID, a uint32, is held as the signed reading of its 32 bits: a
\* subtraction that wraps around shows as a negative number.
\* err is "nil", "error", or "panic" for a run-time panic: a slice past the end
\* of byteArray, the nil newTile.Tileset dereferenced while the error message
\* is built (src/ebitmx.go only), or a division by a zero Width or Height.
RECURSIVE DecodeCells(_, _, _, _, _, _, _)
DecodeCells(r, l, tilesets, byteArray, i, tileNum, tiles) ==
    IF ~LoopContinues(r, i, Len(byteArray))
    THEN [err |-> "nil", Tiles |-> tiles, tileNum |-> tileNum]
    ELSE IF i + 4 > Len(byteArray)
    THEN [err |-> "panic", Tiles |-> tiles, tileNum |-> tileNum]
    ELSE
    LET newTile == TileFromByteArray(SubSeq(byteArray, i + 1, i + 4))
        owner == ResolveTileset(newTile.GlobalTileID, tilesets)
    IN  IF ~IsStored(newTile)
        THEN DecodeCells(r, l, tilesets, byteArray, i + 4, tileNum + 1, tiles)
        ELSE IF owner = NoTileset
        THEN [err |-> IF r = "ebitmx" THEN "panic" ELSE "error",
              Tiles |-> tiles, tileNum |-> tileNum]
        ELSE IF l.Width = 0 \/ l.Height = 0
        THEN [err |-> "panic", Tiles |-> tiles, tileNum |-> tileNum]
        ELSE DecodeCells(r, l, tilesets, byteArray, i + 4, tileNum + 1,
                 Append(tiles,
                     [newTile EXCEPT
                         !.Tileset = owner,
                         !.X = TileX(l, tileNum),
                         !.Y = TileY(l, tileNum),
                         !.InternalTileID =
                             newTile.GlobalTileID - tilesets[owner].FirstGid]))

\* Layer.DecodeData in iteration r: [err, l, tileNum], tileNum being the number
\* of cells the loop went through.
DecodeData(r, l, tilesets) ==
    IF l.Data.Encoding = Base64
    THEN LET dec == DecodeString(l.Data.Text) IN
         IF dec.err # "nil" THEN [err |-> "error", l |-> l, tileNum |-> 0]
         ELSE LET out == DecodeCells(r, l, tilesets, dec.bytes, 0, 0, l.Tiles) IN
              [err |-> out.err, l |-> [l EXCEPT !.Tiles = out.Tiles],
               tileNum |-> out.tileNum]
    ELSE [err |-> "nil", l |-> l, tileNum |-> 0]

\* ---------------------------------------------------------------------------
\* Map Document: LoadFromFile
\* ---------------------------------------------------------------------------

Point(x, y) == [X |-> x, Y |-> y]

Rectangle(x0, y0, x1, y1) == [Min |-> Point(x0, y0), Max |-> Point(x1, y1)]

\* &TmxMap{}: every field zero
EmptyMap ==
    [ Tilesets |-> <<>>, Layers |-> <<>>, ObjectGroups |-> <<>>,
      Width |-> 0, Height |-> 0, TileWidth |-> 0, TileHeight |-> 0,
      PixelWidth |-> 0, PixelHeight |-> 0,
      CameraPosition |-> Point(0, 0),
      CameraBounds |-> Rectangle(0, 0, 0, 0),
      ScaledCam |-> Rectangle(0, 0, 0, 0) ]

NoCalls == [LoadFromTsx |-> <<>>, DecodeData |-> <<>>]

NoQuery == [fn |-> "none"]

\* no layer has a Rendered image, no image was made, no Render call was made
\* a goroutine that is in no Render or DebugRender call and has made none
IdleCall ==
    [ pc |-> "idle", n |-> 0, fn |-> "none", target |-> 0, scale |-> [num |-> 1, den |-> 1],
      refresh |-> FALSE, rendered |-> 0, i |-> 0, scaledWidth |-> 0, scaledHeight |-> 0,
      out |-> [returned |-> FALSE] ]

\* the goroutines that call the renderer
Procs == {1, 2}

NoRender ==
    [ Rendered |-> <<>>, GroupRendered |-> <<>>, images |-> <<>>, last |-> [fn |-> "none"],
      calls |-> [p \in Procs |-> IdleCall] ]

NotReturned == [returned |-> FALSE]

Returned(map, err) == [returned |-> TRUE, map |-> map, err |-> err]

\* --- the documents a load is run on ---------------------------------------

MaxCells == 2           \* cells in a layer payload
MaxTilesets == 2        \* tileset elements in a map document
MaxTileDim == 2         \* tile width and height of an external tileset
MaxTileCount == 4       \* tilecount of an external tileset
MaxColumns == 2         \* columns of an external tileset

\* firstgid values of the tileset elements
FirstGids == {2, 4}

\* the cells of a payload: empty, empty with a flag bit, a global id below every
\* firstgid, one between the two firstgids (flipped), one above both
CellSet ==
    { Pack(0, FALSE, FALSE, FALSE), Pack(0, TRUE, FALSE, FALSE),
      Pack(1, FALSE, FALSE, FALSE), Pack(3, FALSE, TRUE, TRUE),
      Pack(5, FALSE, FALSE, FALSE) }

RECURSIVE Flatten(_)
Flatten(cells) == IF cells = <<>> THEN <<>> ELSE Head(cells) \o Flatten(Tail(cells))

\* up to MaxCells whole cells
CellStreams ==
    { Flatten(cells) : cells \in UNION {[1 .. n -> CellSet] : n \in 0 .. MaxCells} }

\* byte streams: whole cells, then 0 to 3 bytes of a partial group
ByteStreams ==
    { cells \o [k \in 1 .. extra |-> 255] : cells \in CellStreams, extra \in 0 .. 3 }

\* layer width and height, zero (an absent attribute) included
LayerDims == {<<1, 1>>, <<1, 2>>, <<2, 1>>, <<2, 2>>, <<0, 1>>, <<1, 0>>}

DataEncodings == {Base64, "csv", "", "hex"}
Compressions == {"", "gzip", "zlib", "zstd"}

ParsedLayer(dims, encoding, compression, text) ==
    [ Width |-> dims[1], Height |-> dims[2], Tiles |-> <<>>,
      Data |-> [Text |-> text, Encoding |-> encoding, Compression |-> compression] ]

\* an external tileset description and its image: the attributes as
\* xml.Unmarshal decodes them, and parse, how the decoding ends: "ok", or with
\* an error at an "attribute" of the tileset element (that attribute and what
\* follows it stay zero), or with an error "later", after the image element
Tsx(readable, imageOk, tw, th, count, columns) ==
    [ readable |-> readable, imageOk |-> imageOk, parse |-> "ok",
      TileWidth |-> tw, TileHeight |-> th, TileCount |-> count, Columns |-> columns ]

Malformed(tsx, at) == [tsx EXCEPT !.parse = at]

GoodTsx == Tsx(TRUE, TRUE, 2, 1, 4, 2)

TilesetLists(tsxs) ==
    UNION { { [i \in 1 .. n |-> ParsedTileset(g[i], x[i])] :
                g \in [1 .. n -> FirstGids], x \in [1 .. n -> tsxs] } :
            n \in 0 .. MaxTilesets }

ParsedMap(tilesets, layers, groups) ==
    [ EmptyMap EXCEPT !.Tilesets = tilesets, !.Layers = layers, !.ObjectGroups = groups,
                      !.Width = 2, !.Height = 3, !.TileWidth = 2, !.TileHeight = 1 ]

OneGroup == << [Name |-> "collisionmap", Objects |-> <<>>] >>

\* plain base64 layers of whole cells over every order of the tileset elements
OrderDocuments ==
    { ParsedMap(ts, << ParsedLayer(<<2, 2>>, Base64, "", [valid |-> TRUE, bytes |-> b]) >>,
                OneGroup) :
        ts \in TilesetLists({GoodTsx}), b \in CellStreams }

\* plain base64 layers of every size and stream length over two tilesets
PayloadDocuments ==
    { ParsedMap(<< ParsedTileset(2, GoodTsx), ParsedTileset(4, GoodTsx) >>,
                << ParsedLayer(dims, Base64, "", [valid |-> TRUE, bytes |-> b]) >>,
                OneGroup) :
        dims \in LayerDims, b \in ByteStreams }

\* layers of every encoding and compression tag, and text that is not base64
TaggedDocuments ==
    { ParsedMap(<< ParsedTileset(2, GoodTsx) >>,
                << ParsedLayer(<<2, 2>>, e, c, text) >>, OneGroup) :
        e \in DataEncodings, c \in Compressions,
        text \in { [valid |-> TRUE, bytes |-> Pack(3, FALSE, FALSE, FALSE)],
                   [valid |-> FALSE, bytes |-> <<>>] } }

\* external tilesets that cannot be resolved, several layers, no object group
ResolutionDocuments ==
    { ParsedMap(ts, layers, groups) :
        ts \in TilesetLists({GoodTsx, Tsx(FALSE, FALSE, 0, 0, 0, 0),
                             Tsx(TRUE, FALSE, 2, 1, 4, 2), Tsx(TRUE, TRUE, 2, 1, 4, 0)}),
        layers \in { <<>>,
                     << ParsedLayer(<<2, 2>>, Base64, "",
                                    [valid |-> TRUE, bytes |-> Pack(5, FALSE, FALSE, FALSE)]),
                        ParsedLayer(<<2, 2>>, Base64, "",
                                    [valid |-> TRUE, bytes |-> Pack(1, FALSE, FALSE, FALSE)]) >> },
        groups \in {<<>>, OneGroup} }

\* one tileset of every tile count, one cell owned by it
AtlasDocuments ==
    { ParsedMap(<< ParsedTileset(2, Tsx(TRUE, TRUE, 2, 1, count, 2)) >>,
                << ParsedLayer(<<2, 2>>, Base64, "",
                               [valid |-> TRUE, bytes |-> Pack(gid, FALSE, FALSE, FALSE)]) >>,
                OneGroup) :
        count \in 0 .. MaxTileCount, gid \in {3, 5} }

\* one tileset whose description is malformed: a tilecount that is no integer
\* (tilecount and columns stay zero), an image width that is no integer, a
\* missing end tag
MalformedDocuments ==
    { ParsedMap(<< ParsedTileset(2, tsx) >>,
                << ParsedLayer(<<2, 2>>, Base64, "",
                               [valid |-> TRUE, bytes |-> Pack(3, FALSE, FALSE, FALSE)]) >>,
                OneGroup) :
        tsx \in { Malformed(Tsx(TRUE, TRUE, 2, 1, 0, 0), "attribute"),
                  Malformed(Tsx(TRUE, FALSE, 2, 1, 0, 0), "attribute"),
                  Malformed(GoodTsx, "later"),
                  Malformed(Tsx(TRUE, FALSE, 2, 1, 4, 2), "later") } }

Documents ==
    OrderDocuments \cup PayloadDocuments \cup TaggedDocuments \cup ResolutionDocuments
        \cup AtlasDocuments \cup MalformedDocuments

\* --- LoadFromFile, one action per step -------------------------------------

AfterStageLayersFirst(map, stage) ==
    IF stage = "parse" /\ Len(map.Layers) > 0 THEN "layers" ELSE "finish"

\* where LoadFromFile goes once the loop over the tilesets (stage "tilesets") or
\* over the layers (stage "layers") has nothing left to do
AfterStage(map, stage) ==
    IF stage = "parse" /\ Len(map.Tilesets) > 0 THEN "tilesets"
    ELSE IF stage \in {"parse", "tilesets"} /\ Len(map.Layers) > 0 THEN "layers"
    ELSE "finish"

\* ioutil.ReadFile(path) fails: return gameMap, err
ReadFails ==
    /\ pc = "start"
    /\ pc' = "returned"
    /\ result' = Returned("gameMap", "error")
    /\ UNCHANGED <<query, render, codec, rev, gameMap, idx, ret>>

\* xml.Unmarshal reports an error: return nil, err (src/ebitmx.go; the viewport
\* iteration discards the error and goes on with what was parsed, which is
\* action Parse)
ParseFails ==
    /\ pc = "start"
    /\ rev = "ebitmx"
    /\ pc' = "returned"
    /\ result' = Returned("nil", "error")
    /\ UNCHANGED <<query, render, codec, rev, gameMap, idx, ret>>

\* the file is read and xml.Unmarshal fills gameMap with one of the documents
ParseFrom(documents) ==
    /\ pc = "start"
    /\ \E doc \in documents :
          /\ gameMap' = doc
          /\ pc' = AfterStage(doc, "parse")
    /\ idx' = 1
    /\ UNCHANGED <<query, render, codec, rev, ret, result>>

Parse == ParseFrom(Documents)

\* one iteration of: for i := range gameMap.Tilesets { err := LoadFromTsx(...) }
LoadTileset ==
    /\ pc = "tilesets"
    /\ LET out == LoadFromTsx(gameMap.Tilesets[idx])
           last == idx = Len(gameMap.Tilesets)
       IN  /\ gameMap' = [gameMap EXCEPT !.Tilesets[idx] = out.t]
           /\ ret' = [ret EXCEPT !.LoadFromTsx = Append(@, out.err)]
           /\ pc' = CASE out.err = "panic" -> "crashed"
                      [] out.err = "error" -> "returned"
                      [] OTHER -> IF last THEN AfterStage(gameMap, "tilesets")
                                  ELSE "tilesets"
           /\ result' = IF out.err = "error" THEN Returned("nil", "error") ELSE result
           /\ idx' = IF out.err = "nil" THEN (IF last THEN 1 ELSE idx + 1) ELSE idx
    /\ UNCHANGED <<query, render, codec, rev>>

\* one iteration of: for i := range gameMap.Layers { err := DecodeData(gameMap) }
\* src/ebitmx.go returns nil, err on an error; the viewport iteration drops
\* the value DecodeData returns
DecodeLayer ==
    /\ pc = "layers"
    /\ LET out == DecodeData(rev, gameMap.Layers[idx], gameMap.Tilesets)
           last == idx = Len(gameMap.Layers)
           stop == out.err = "error" /\ rev = "ebitmx"
       IN  /\ gameMap' = [gameMap EXCEPT !.Layers[idx] = out.l]
           /\ ret' = [ret EXCEPT !.DecodeData =
                         Append(@, [err |-> out.err, tileNum |-> out.tileNum])]
           /\ pc' = CASE out.err = "panic" -> "crashed"
                      [] stop -> "returned"
                      [] OTHER -> IF last THEN "finish" ELSE "layers"
           /\ result' = IF stop THEN Returned("nil", "error") ELSE result
           /\ idx' = IF out.err = "panic" \/ stop \/ last THEN idx ELSE idx + 1
    /\ UNCHANGED <<query, render, codec, rev>>

\* the end of LoadFromFile. src/ebitmx.go ranges over gameMap.ObjectGroups[0].Objects
\* (an index out of range when there is no object group), then sets the pixel
\* size. The viewport iteration assigns PixelWidth twice and PixelHeight never.
Finish ==
    /\ pc = "finish"
    /\ IF rev = "ebitmx"
       THEN IF Len(gameMap.ObjectGroups) = 0
            THEN /\ pc' = "crashed"
                 /\ UNCHANGED <<gameMap, result>>
            ELSE /\ pc' = "returned"
                 /\ gameMap' = [gameMap EXCEPT
                       !.PixelWidth = gameMap.Width * gameMap.TileWidth,
                       !.PixelHeight = gameMap.Height * gameMap.TileHeight]
                 /\ result' = Returned("gameMap", "nil")
       ELSE /\ pc' = "returned"
            /\ gameMap' = [gameMap EXCEPT
                  !.PixelWidth = gameMap.Height * gameMap.TileHeight]
            /\ result' = Returned("gameMap", "nil")
    /\ UNCHANGED <<query, render, codec, rev, idx, ret>>

Init ==
    /\ codec = CodecIdle
    /\ rev = "ebitmx"
    /\ pc = "start"
    /\ gameMap = EmptyMap
    /\ idx = 0
    /\ ret = NoCalls
    /\ result = NotReturned
    /\ query = NoQuery
    /\ render = NoRender

Next == ReadFails \/ ParseFails \/ Parse \/ LoadTileset \/ DecodeLayer \/ Finish

Spec == Init /\ [][Next]_vars

\* the viewport iteration (src/unnamed/part_000, lines 590-989)
InitViewport ==
    /\ codec = CodecIdle
    /\ rev = "viewport"
    /\ pc = "start"
    /\ gameMap = EmptyMap
    /\ idx = 0
    /\ ret = NoCalls
    /\ result = NotReturned
    /\ query = NoQuery
    /\ render = NoRender

NextViewport == ReadFails \/ Parse \/ LoadTileset \/ DecodeLayer \/ Finish

SpecViewport == InitViewport /\ [][NextViewport]_vars

\* LoadFromTsx alone, on one tileset over a range of external descriptions
TsxInputs ==
    { Tsx(rd[1], rd[2], tw, th, count, columns) :
        rd \in {<<TRUE, TRUE>>, <<TRUE, FALSE>>, <<FALSE, FALSE>>},
        tw \in 0 .. MaxTileDim, th \in 0 .. MaxTileDim,
        count \in 0 .. MaxTileCount, columns \in 0 .. MaxColumns }

InitTsx ==
    /\ codec = CodecIdle
    /\ rev = "ebitmx"
    /\ pc = "tilesets"
    /\ \E tsx \in TsxInputs :
          gameMap = [EmptyMap EXCEPT !.Tilesets = << ParsedTileset(1, tsx) >>]
    /\ idx = 1
    /\ ret = NoCalls
    /\ result = NotReturned
    /\ query = NoQuery
    /\ render = NoRender

NextTsx == LoadTileset

SpecTsx == InitTsx /\ [][NextTsx]_vars

\* ---------------------------------------------------------------------------
\* Specification of the codec alone: a packed cell, then TileFromByteArray on it
\* ---------------------------------------------------------------------------

LoadIdle ==
    /\ rev = "ebitmx"
    /\ pc = "idle"
    /\ gameMap = EmptyMap
    /\ idx = 0
    /\ ret = NoCalls
    /\ result = NotReturned
    /\ query = NoQuery
    /\ render = NoRender

InitCodec ==
    /\ \E id \in CodecIds, h \in BOOLEAN, v \in BOOLEAN, d \in BOOLEAN :
           codec = [id |-> id, h |-> h, v |-> v, d |-> d, data |-> Pack(id, h, v, d),
                    tile |-> NoTile]
    /\ LoadIdle

Decode ==
    /\ codec.tile = NoTile
    /\ codec' = [codec EXCEPT !.tile = TileFromByteArray(codec.data)]
    /\ UNCHANGED <<query, render, rev, pc, gameMap, idx, ret, result>>

NextCodec == Decode

SpecCodec == InitCodec /\ [][NextCodec]_vars

\* ---------------------------------------------------------------------------
\* Codec claims
\* ---------------------------------------------------------------------------

\* C1: decoding a packed cell gives back the id and the three flags that were
\* packed, for every id below 2^29 and every combination of flags.
C1_RoundTrip ==
    codec.tile # NoTile =>
        /\ codec.tile.GlobalTileID = codec.id
        /\ codec.tile.FlippedHorizontally = codec.h
        /\ codec.tile.FlippedVertically = codec.v
        /\ codec.tile.FlippedDiagonally = codec.d

C1_Witness ==
    /\ codec.tile # NoTile
    /\ codec.id = 536870911
    /\ codec.h /\ ~codec.v /\ codec.d

\* bit k (24..31) of the raw little-endian cell
RawBit(data, k) == (data[4] \div (2 ^ (k - 24))) % 2 = 1

\* C2: each reported flip flag equals the strict test of its bit of the raw
\* cell (bit 31 horizontal, bit 30 vertical, bit 29 diagonal), whatever the
\* other bits are.
C2_FlagsAreBitTests ==
    codec.tile # NoTile =>
        /\ codec.tile.FlippedHorizontally = RawBit(codec.data, 31)
        /\ codec.tile.FlippedVertically = RawBit(codec.data, 30)
        /\ codec.tile.FlippedDiagonally = RawBit(codec.data, 29)

C2_Witness ==
    /\ codec.tile # NoTile
    /\ codec.data = <<1, 0, 0, 32>>
    /\ codec.tile.FlippedDiagonally
    /\ ~codec.tile.FlippedHorizontally

\* ---------------------------------------------------------------------------
\* Layer and tileset claims
\* ---------------------------------------------------------------------------

\* The payload of a layer read directly, cell by cell (n counts cells from 0).
StreamOf(l) == l.Data.Text.bytes
WholeCells(bytes) == Len(bytes) \div 4
CellIsEmpty(bytes, n) ==
    /\ bytes[4 * n + 1] = 0
    /\ bytes[4 * n + 2] = 0
    /\ bytes[4 * n + 3] = 0
    /\ bytes[4 * n + 4] % 32 = 0
CellGid(bytes, n) ==
    bytes[4 * n + 1] + 256 * bytes[4 * n + 2] + 65536 * bytes[4 * n + 3]
        + 16777216 * (bytes[4 * n + 4] % 32)
NonEmptyCells(bytes) == {n \in 0 .. (WholeCells(bytes) - 1) : ~CellIsEmpty(bytes, n)}
\* the cell index of the j-th non-empty cell (j from 1)
NthNonEmpty(bytes, j) ==
    CHOOSE n \in NonEmptyCells(bytes) :
        Cardinality({m \in NonEmptyCells(bytes) : m < n}) = j - 1
Unowned(bytes, tilesets, n) ==
    \A k \in 1 .. Len(tilesets) : CellGid(bytes, n) < tilesets[k].FirstGid
Ascending(tilesets) ==
    \A k \in 1 .. (Len(tilesets) - 1) : tilesets[k].FirstGid <= tilesets[k + 1].FirstGid
PlainBase64(l) ==
    l.Data.Encoding = Base64 /\ l.Data.Compression = "" /\ l.Data.Text.valid
DecodedLayers == 1 .. Len(ret.DecodeData)

\* the owner of tile t has the largest FirstGid that is <= t.GlobalTileID
OwnerIsTightest(t, tilesets) ==
    /\ t.Tileset \in 1 .. Len(tilesets)
    /\ tilesets[t.Tileset].FirstGid <= t.GlobalTileID
    /\ \A m \in 1 .. Len(tilesets) :
          tilesets[m].FirstGid <= t.GlobalTileID
              => tilesets[m].FirstGid <= tilesets[t.Tileset].FirstGid

\* C3: with the tilesets listed in ascending FirstGid order, the j-th Tile of a
\* decoded layer is the j-th non-empty cell and its owner is the tileset T with
\* T.FirstGid <= gid < the next tileset's FirstGid (no upper bound for the last),
\* which is the one with the largest FirstGid <= gid.
C3_OwnerWhenAscending ==
    \A k \in DecodedLayers :
        LET l == gameMap.Layers[k]
            ts == gameMap.Tilesets
        IN  (Ascending(ts) /\ PlainBase64(l)) =>
                \A j \in 1 .. Len(l.Tiles) :
                    LET t == l.Tiles[j] IN
                    /\ j <= Cardinality(NonEmptyCells(StreamOf(l)))
                    /\ t.GlobalTileID = CellGid(StreamOf(l), NthNonEmpty(StreamOf(l), j))
                    /\ OwnerIsTightest(t, ts)
                    /\ t.Tileset < Len(ts) => t.GlobalTileID < ts[t.Tileset + 1].FirstGid

C3_Witness ==
    /\ Len(ret.DecodeData) = 1
    /\ Len(gameMap.Tilesets) = 2
    /\ gameMap.Tilesets[1].FirstGid = 2 /\ gameMap.Tilesets[2].FirstGid = 4
    /\ Len(gameMap.Layers[1].Tiles) = 2
    /\ gameMap.Layers[1].Tiles[1].GlobalTileID = 3 /\ gameMap.Layers[1].Tiles[1].Tileset = 1
    /\ gameMap.Layers[1].Tiles[2].GlobalTileID = 5 /\ gameMap.Layers[1].Tiles[2].Tileset = 2

\* C4: whatever the document order of the tileset elements, every decoded
\* Tile's owner is the tileset with the largest FirstGid <= its GlobalTileID.
C4_OwnerInAnyOrder ==
    \A k \in DecodedLayers :
        \A j \in 1 .. Len(gameMap.Layers[k].Tiles) :
            OwnerIsTightest(gameMap.Layers[k].Tiles[j], gameMap.Tilesets)

\* C5: when a non-empty cell's global id is below every tileset's FirstGid (or
\* there is no tileset), DecodeData returns an error: it neither panics nor
\* returns nil.
C5_UnownedCellIsError ==
    \A k \in DecodedLayers :
        LET l == gameMap.Layers[k] IN
        ( /\ PlainBase64(l)
          /\ l.Width >= 1 /\ l.Height >= 1
          /\ \E n \in NonEmptyCells(StreamOf(l)) : Unowned(StreamOf(l), gameMap.Tilesets, n) )
            => ret.DecodeData[k].err = "error"

\* C6: in a layer of width W >= 1 and height H >= 1 the Tile of the non-empty
\* cell with sequential index n sits at (n mod W, n div W).
C6_RowMajorPosition ==
    \A k \in DecodedLayers :
        LET l == gameMap.Layers[k] IN
        (PlainBase64(l) /\ l.Width >= 1 /\ l.Height >= 1) =>
            \A j \in 1 .. Len(l.Tiles) :
                LET n == NthNonEmpty(StreamOf(l), j) IN
                /\ l.Tiles[j].X = n % l.Width
                /\ l.Tiles[j].Y = n \div l.Width

\* C7: after DecodeData returned nil for a base64 payload, Tiles holds one
\* record per whole 4-byte cell whose low 29 bits are not all zero, and none
\* for a cell whose global id is 0, whatever the layer's Width and Height.
C7_OneTilePerNonEmptyCell ==
    \A k \in DecodedLayers :
        LET l == gameMap.Layers[k] IN
        (l.Data.Encoding = Base64 /\ l.Data.Text.valid /\ ret.DecodeData[k].err = "nil") =>
            /\ Len(l.Tiles) = Cardinality(NonEmptyCells(StreamOf(l)))
            /\ \A j \in 1 .. Len(l.Tiles) : l.Tiles[j].GlobalTileID # 0

\* a 1x1 layer whose payload is a flagged empty cell and a non-empty one
C7_Witness ==
    /\ Len(ret.DecodeData) = 1
    /\ ret.DecodeData[1].err = "nil"
    /\ gameMap.Layers[1].Width = 1 /\ gameMap.Layers[1].Height = 1
    /\ StreamOf(gameMap.Layers[1]) =
           Pack(0, TRUE, FALSE, FALSE) \o Pack(3, FALSE, TRUE, TRUE) \o <<255, 255>>
    /\ Len(gameMap.Layers[1].Tiles) = 1

\* C8: for a byte stream of any length L, DecodeData goes through exactly
\* L div 4 cells, the last whole group included, and nothing but an unowned
\* cell or a zero layer size makes it fail: not a short stream, not a partial
\* group of 1 to 3 bytes at the end.
C8_EveryWholeGroup ==
    \A k \in DecodedLayers :
        LET l == gameMap.Layers[k]
            b == StreamOf(l)
        IN  PlainBase64(l) =>
              /\ ret.DecodeData[k].err = "nil" => ret.DecodeData[k].tileNum = WholeCells(b)
              /\ ( /\ l.Width >= 1 /\ l.Height >= 1
                   /\ \A n \in NonEmptyCells(b) : ~Unowned(b, gameMap.Tilesets, n) )
                     => ret.DecodeData[k].err = "nil"

\* C9: DecodeData returns an error for a layer whose encoding is not base64 or
\* whose compression tag is set.
C9_UnsupportedIsError ==
    \A k \in DecodedLayers :
        LET l == gameMap.Layers[k] IN
        (l.Data.Encoding # Base64 \/ l.Data.Compression # "")
            => ret.DecodeData[k].err = "error"

\* C10: for a tileset with columns >= 1 (and tiles of at least 1x1), LoadFromTsx stores under every local
\* index i in 0..TileCount-1 the sub-image of the rectangle with top-left
\* ((i mod columns) * TileWidth, (i div columns) * TileHeight) and size
\* TileWidth x TileHeight.
C10_AtlasRectangle ==
    \A k \in 1 .. Len(ret.LoadFromTsx) :
        LET t == gameMap.Tilesets[k] IN
        (ret.LoadFromTsx[k] = "nil" /\ t.Columns >= 1 /\ t.TileWidth >= 1 /\ t.TileHeight >= 1) =>
            \A i \in 0 .. (t.TileCount - 1) :
                /\ i \in DOMAIN t.Tiles
                /\ t.Tiles[i].Min = [X |-> (i % t.Columns) * t.TileWidth,
                                     Y |-> (i \div t.Columns) * t.TileHeight]
                /\ t.Tiles[i].Max = [X |-> t.Tiles[i].Min.X + t.TileWidth,
                                     Y |-> t.Tiles[i].Min.Y + t.TileHeight]

\* ---------------------------------------------------------------------------
\* Tile record and load claims
\* ---------------------------------------------------------------------------

\* C11: every Tile stored by DecodeData has an owning tileset (not nil) whose
\* FirstGid is <= the Tile's GlobalTileID, and InternalTileID is
\* GlobalTileID - FirstGid, a subtraction that does not wrap around.
C11_OwnedAndLocal ==
    \A k \in 1 .. Len(gameMap.Layers) :
        \A j \in 1 .. Len(gameMap.Layers[k].Tiles) :
            LET t == gameMap.Layers[k].Tiles[j] IN
            /\ t.Tileset # NoTileset
            /\ t.Tileset \in 1 .. Len(gameMap.Tilesets)
            /\ gameMap.Tilesets[t.Tileset].FirstGid <= t.GlobalTileID
            /\ t.InternalTileID >= 0
            /\ t.InternalTileID + gameMap.Tilesets[t.Tileset].FirstGid = t.GlobalTileID

\* tilesets listed as 4, 2: the Tile with global id 5 is given the second one
C11_Witness ==
    /\ Len(gameMap.Tilesets) = 2
    /\ gameMap.Tilesets[1].FirstGid = 4 /\ gameMap.Tilesets[2].FirstGid = 2
    /\ Len(gameMap.Layers) = 1
    /\ Len(gameMap.Layers[1].Tiles) = 2
    /\ gameMap.Layers[1].Tiles[2].GlobalTileID = 5
    /\ gameMap.Layers[1].Tiles[2].Tileset = 2
    /\ gameMap.Layers[1].Tiles[2].InternalTileID = 3

LoadSucceeded == pc = "returned" /\ result.returned /\ result.err = "nil"

\* C12: in a map LoadFromFile returned with a nil error, every Tile's local
\* index is inside its owner's atlas: InternalTileID < TileCount and
\* Tileset.Tiles has an entry for it.
C12_LocalIndexInAtlas ==
    LoadSucceeded =>
        \A k \in 1 .. Len(gameMap.Layers) :
            \A j \in 1 .. Len(gameMap.Layers[k].Tiles) :
                LET t == gameMap.Layers[k].Tiles[j]
                    owner == gameMap.Tilesets[t.Tileset]
                IN  /\ t.InternalTileID < owner.TileCount
                    /\ t.InternalTileID \in DOMAIN owner.Tiles

\* C13: a failing LoadFromTsx or DecodeData ends LoadFromFile at that step
\* with a non-nil error, and a nil error is only returned with every tileset
\* resolved and every layer decoded without error.
C13_FailureAbortsLoad ==
    /\ \A k \in 1 .. Len(ret.LoadFromTsx) :
          ret.LoadFromTsx[k] = "error" => (pc = "returned" /\ result.err = "error")
    /\ \A k \in 1 .. Len(ret.DecodeData) :
          ret.DecodeData[k].err = "error" => (pc = "returned" /\ result.err = "error")
    /\ (pc = "returned" /\ result.err = "nil") =>
          /\ Len(ret.LoadFromTsx) = Len(gameMap.Tilesets)
          /\ Len(ret.DecodeData) = Len(gameMap.Layers)
          /\ \A k \in 1 .. Len(ret.LoadFromTsx) : ret.LoadFromTsx[k] = "nil"
          /\ \A k \in 1 .. Len(ret.DecodeData) : ret.DecodeData[k].err = "nil"

-----------------------------------------------------------------------------
\* Spatial Query (src/ebitmx.go, GetObjectGroupByName, CheckColisionPoint,
\* CheckColision)

Object(x, y, w, h) == [X |-> x, Y |-> y, Width |-> w, Height |-> h]

\* a nil *ObjectGroup
NoGroup == 0

RECURSIVE GroupFrom(_, _, _)
GroupFrom(groups, name, i) ==
    IF i > Len(groups) THEN NoGroup
    ELSE IF groups[i].Name = name THEN i
    ELSE GroupFrom(groups, name, i + 1)

\* the first group of that name, nil when there is none
GetObjectGroupByName(t, name) == GroupFrom(t.ObjectGroups, name, 1)

PointStrictlyInObject(subject, object) ==
    /\ subject.X > object.X /\ subject.X < object.X + object.Width
    /\ subject.Y > object.Y /\ subject.Y < object.Y + object.Height

\* the test of CheckColisionPoint's loop body
PointInObject(subject, object) ==
    /\ subject.X >= object.X /\ subject.X <= object.X + object.Width
    /\ subject.Y >= object.Y /\ subject.Y <= object.Y + object.Height

\* the test of CheckColision's loop body: Max is added to Min
RectangleHitsObject(subject, object) ==
    /\ subject.Min.X < object.X + object.Width
    /\ subject.Min.X + subject.Max.X > object.X
    /\ subject.Min.Y < object.Y + object.Height
    /\ subject.Min.Y + subject.Max.Y > object.Y

Panics == [panic |-> TRUE, value |-> FALSE]

Yields(value) == [panic |-> FALSE, value |-> value]

\* collisionLayer.Objects dereferences the nil group
CheckColisionPoint(t, subject) ==
    LET collisionLayer == GetObjectGroupByName(t, "collisionmap") IN
    IF collisionLayer = NoGroup THEN Panics
    ELSE LET objects == t.ObjectGroups[collisionLayer].Objects IN
         Yields(\E i \in 1 .. Len(objects) : PointInObject(subject, objects[i]))

CheckColision(t, subject) ==
    LET collisionLayer == GetObjectGroupByName(t, "collisionmap") IN
    IF collisionLayer = NoGroup THEN Panics
    ELSE LET objects == t.ObjectGroups[collisionLayer].Objects IN
         Yields(\E i \in 1 .. Len(objects) : RectangleHitsObject(subject, objects[i]))

MaxObjects == 2

Coordinates == {0, 5, 10, 15, 20, 30}

ObjectSet == { Object(10, 10, 20, 20), Object(0, 0, 5, 5) }

ObjectLists == UNION { [1 .. n -> ObjectSet] : n \in 0 .. MaxObjects }

SubjectPoints == { Point(x, y) : x \in Coordinates, y \in Coordinates }

SubjectRectangles ==
    { Rectangle(min.X, min.Y, max.X, max.Y) :
        min \in SubjectPoints,
        max \in SubjectPoints } \cap
    { r \in [Min : SubjectPoints, Max : SubjectPoints] :
        r.Min.X <= r.Max.X /\ r.Min.Y <= r.Max.Y }

\* maps without tiles: a collisionmap group of some objects, a group of another
\* name before or instead of it, no group at all
QueryDocuments ==
    { ParsedMap(<<>>, <<>>, << [Name |-> "collisionmap", Objects |-> objects] >>) :
        objects \in ObjectLists }
    \cup { ParsedMap(<<>>, <<>>, groups) :
             groups \in { <<>>,
                          << [Name |-> "spawn", Objects |-> <<>>] >>,
                          << [Name |-> "spawn", Objects |-> << Object(10, 10, 20, 20) >>],
                             [Name |-> "collisionmap", Objects |-> << Object(0, 0, 5, 5) >>] >> } }

ParseObjects == ParseFrom(QueryDocuments)

Loaded == pc = "returned" /\ result = Returned("gameMap", "nil")

CallCheckColision ==
    /\ Loaded
    /\ \E subject \in SubjectRectangles :
          LET out == CheckColision(gameMap, subject) IN
          /\ query' = [fn |-> "CheckColision", subject |-> subject, out |-> out]
          /\ pc' = IF out.panic THEN "crashed" ELSE pc
    /\ UNCHANGED <<render, codec, rev, gameMap, idx, ret, result>>

CallCheckColisionPoint ==
    /\ Loaded
    /\ \E subject \in SubjectPoints :
          LET out == CheckColisionPoint(gameMap, subject) IN
          /\ query' = [fn |-> "CheckColisionPoint", subject |-> subject, out |-> out]
          /\ pc' = IF out.panic THEN "crashed" ELSE pc
    /\ UNCHANGED <<render, codec, rev, gameMap, idx, ret, result>>

NextQuery ==
    \/ ReadFails \/ ParseFails \/ ParseObjects \/ Finish
    \/ CallCheckColision \/ CallCheckColisionPoint

SpecQuery == Init /\ [][NextQuery]_vars

\* the objects of the group the queries look at, none when the group is missing
CollisionObjects ==
    LET g == GetObjectGroupByName(gameMap, "collisionmap") IN
    IF g = NoGroup THEN <<>> ELSE gameMap.ObjectGroups[g].Objects

RectanglesOverlap(subject, object) ==
    /\ subject.Min.X < object.X + object.Width
    /\ subject.Max.X > object.X
    /\ subject.Min.Y < object.Y + object.Height
    /\ subject.Max.Y > object.Y

\* C14: CheckColision returns true exactly when the subject rectangle overlaps
\* the rectangle (X, Y, Width, Height) of some object of the collisionmap group.
C14_RectangleOverlap ==
    (query.fn = "CheckColision" /\ ~query.out.panic) =>
        (query.out.value <=>
            \E i \in 1 .. Len(CollisionObjects) :
                RectanglesOverlap(query.subject, CollisionObjects[i]))

\* C15: CheckColisionPoint returns true exactly when the point lies in the
\* rectangle (X, Y, Width, Height), borders included, of some object of the
\* collisionmap group; with no object it returns false.
C15_PointInSomeObject ==
    (query.fn = "CheckColisionPoint" /\ ~query.out.panic) =>
        (query.out.value <=>
            \E i \in 1 .. Len(CollisionObjects) :
                LET o == CollisionObjects[i] IN
                /\ query.subject.X \in o.X .. o.X + o.Width
                /\ query.subject.Y \in o.Y .. o.Y + o.Height)

C15_Witness ==
    /\ query.fn = "CheckColisionPoint"
    /\ query.subject = Point(30, 10)
    /\ Len(CollisionObjects) = 2
    /\ CollisionObjects[2] = Object(10, 10, 20, 20)
    /\ query.out = Yields(TRUE)

\* C16: a query on a map that has no group named collisionmap reports that
\* the group was not found: it returns, and returns no collision.
C16_MissingGroupIsReported ==
    (query.fn # "none" /\ GetObjectGroupByName(gameMap, "collisionmap") = NoGroup) =>
        (~query.out.panic /\ pc = "returned")

-----------------------------------------------------------------------------
\* Renderer (src/ebitmx.go, Layer.Render)

Abs(a) == IF a < 0 THEN 0 - a ELSE a

\* Go's integer division: the quotient truncated toward zero
GoDiv(a, b) ==
    IF (a < 0) = (b < 0) THEN Abs(a) \div Abs(b) ELSE 0 - (Abs(a) \div Abs(b))

\* a float64 scale held as the fraction num / den
Scale(num, den) == [num |-> num, den |-> den]

\* int(float64(a) / scale)
DivScale(a, scale) == GoDiv(a * scale.den, scale.num)

\* a nil *ebiten.Image
NoImage == 0

\* l.Rendered of layer k
Rendered(k) == IF k \in DOMAIN render.Rendered THEN render.Rendered[k] ELSE NoImage

NeedsComposeFirstOnly(rendered, refresh) == rendered = NoImage

\* if l.Rendered == nil || refresh
NeedsCompose(rendered, refresh) == rendered = NoImage \/ refresh

\* tile.Tileset.Tiles[int(tile.InternalTileID)]: the atlas entry, nil when the
\* map has no such key
AtlasImage(map, tile) ==
    LET Tiles == map.Tilesets[tile.Tileset].Tiles IN
    IF tile.InternalTileID \in DOMAIN Tiles
    THEN [Tileset |-> tile.Tileset, nil |-> FALSE, SubImage |-> Tiles[tile.InternalTileID]]
    ELSE [Tileset |-> tile.Tileset, nil |-> TRUE, SubImage |-> NoImage]

\* the image Render composes: ebiten.NewImage(gameMap.PixelWidth,
\* gameMap.PixelHeight), then one DrawImage for each Tile of the layer
WholeLayerImage(map, l) ==
    [ whole |-> TRUE, Width |-> map.PixelWidth, Height |-> map.PixelHeight,
      draws |-> [j \in 1 .. Len(l.Tiles) |->
                    [ X |-> l.Tiles[j].X * map.TileWidth,
                      Y |-> l.Tiles[j].Y * map.TileHeight,
                      img |-> AtlasImage(map, l.Tiles[j]) ]] ]

\* gameMap.ScaledCam as the end of Render sets it
ScaledCamOf(map, scale) ==
    LET scaledWidth == DivScale(map.CameraBounds.Max.X, scale)
        scaledHeight == DivScale(map.CameraBounds.Max.Y, scale)
        minX == map.CameraPosition.X - GoDiv(scaledWidth, 2)
        minY == map.CameraPosition.Y - GoDiv(scaledHeight, 2)
    IN  Rectangle(minX, minY, minX + scaledWidth, minY + scaledHeight)

MaxImages == 2

Scales == { Scale(1, 1), Scale(2, 1), Scale(1, 2) }

CameraPositions == { Point(0, 0), Point(2, 1) }

CameraBoundsSet == { Rectangle(0, 0, 4, 2), Rectangle(0, 0, 3, 3) }

\* a map with one tileset, one or two layers with and without empty cells
RenderedMap(tsx, groups) ==
    { ParsedMap(<< ParsedTileset(2, tsx) >>, layers, groups) :
        layers \in
          { << ParsedLayer(<<2, 2>>, Base64, "",
                  [valid |-> TRUE,
                   bytes |-> Pack(2, FALSE, FALSE, FALSE) \o Pack(0, FALSE, FALSE, FALSE)
                             \o Pack(5, TRUE, FALSE, FALSE)]) >>,
            << ParsedLayer(<<2, 2>>, Base64, "",
                  [valid |-> TRUE, bytes |-> Pack(3, FALSE, FALSE, FALSE)]),
               ParsedLayer(<<2, 2>>, Base64, "",
                  [valid |-> TRUE, bytes |-> <<>>]) >> } }

\* a collisionmap group of a rectangle and a point object, and a second group
TwoGroups ==
    << [Name |-> "collisionmap", Objects |-> << Object(1, 0, 2, 1), Object(3, 2, 0, 0) >>],
       [Name |-> "spawn", Objects |-> <<>>] >>

\* maps the renderer is run on: tilesets of four tiles and of one tile, with
\* and without objects
RenderDocuments ==
    RenderedMap(GoodTsx, OneGroup) \cup RenderedMap(GoodTsx, TwoGroups)
        \cup RenderedMap(Tsx(TRUE, TRUE, 2, 1, 1, 2), OneGroup)

ParseRendered == ParseFrom(RenderDocuments)

\* the caller positions the camera: CameraPosition and CameraBounds are fields
\* the library only reads
SetCameraTo(positions, boundsSet) ==
    /\ pc = "returned"
    /\ result = Returned("gameMap", "nil")
    /\ \E position \in positions, bounds \in boundsSet :
          gameMap' = [gameMap EXCEPT !.CameraPosition = position,
                                     !.CameraBounds = bounds]
    /\ UNCHANGED <<query, render, codec, rev, pc, idx, ret, result>>

SetCamera == SetCameraTo(CameraPositions, CameraBoundsSet)

\* o.Rendered of object group g
GroupRendered(g) ==
    IF g \in DOMAIN render.GroupRendered THEN render.GroupRendered[g] ELSE NoImage

\* the image DebugRender composes: ebiten.NewImage(gameMap.PixelWidth,
\* gameMap.PixelHeight), then for each object a black image of the object's
\* size drawn at the object's position
DebugImage(map, o) ==
    [ whole |-> TRUE, Width |-> map.PixelWidth, Height |-> map.PixelHeight,
      draws |-> [j \in 1 .. Len(o.Objects) |->
                    [ X |-> o.Objects[j].X, Y |-> o.Objects[j].Y,
                      img |-> [ Width |-> o.Objects[j].Width,
                                Height |-> o.Objects[j].Height ] ]] ]

\* gameMap.Layers[k].Render(gameMap, scale, refresh)
CallRender ==
    /\ pc = "returned"
    /\ result = Returned("gameMap", "nil")
    /\ rev = "ebitmx"
    /\ \E k \in 1 .. Len(gameMap.Layers), scale \in Scales, refresh \in BOOLEAN :
          LET compose == NeedsCompose(Rendered(k), refresh)
              images == IF compose
                        THEN Append(render.images, WholeLayerImage(gameMap, gameMap.Layers[k]))
                        ELSE render.images
              after == IF compose THEN Len(images) ELSE Rendered(k)
              cam == ScaledCamOf(gameMap, scale)
          IN  /\ Len(images) <= MaxImages
              /\ render' =
                    [ Rendered |-> [j \in 1 .. Len(gameMap.Layers) |->
                                      IF j = k THEN after ELSE Rendered(j)],
                      GroupRendered |-> render.GroupRendered,
                      calls |-> render.calls,
                      images |-> images,
                      last |-> [ fn |-> "Render", layer |-> k, scale |-> scale,
                                 refresh |-> refresh, before |-> Rendered(k),
                                 after |-> after,
                                 drawn |-> IF compose THEN Len(images[after].draws) ELSE 0,
                                 SubImage |-> cam ] ]
              /\ gameMap' = [gameMap EXCEPT !.ScaledCam = cam]
    /\ UNCHANGED <<query, codec, rev, pc, idx, ret, result>>

\* gameMap.ObjectGroups[g].DebugRender(gameMap, scale)
CallDebugRender ==
    /\ pc = "returned"
    /\ result = Returned("gameMap", "nil")
    /\ rev = "ebitmx"
    /\ \E g \in 1 .. Len(gameMap.ObjectGroups), scale \in Scales :
          LET compose == GroupRendered(g) = NoImage
              images == IF compose
                        THEN Append(render.images, DebugImage(gameMap, gameMap.ObjectGroups[g]))
                        ELSE render.images
              after == IF compose THEN Len(images) ELSE GroupRendered(g)
              cam == ScaledCamOf(gameMap, scale)
          IN  /\ Len(images) <= MaxImages
              /\ render' =
                    [ Rendered |-> render.Rendered,
                      calls |-> render.calls,
                      GroupRendered |-> [j \in 1 .. Len(gameMap.ObjectGroups) |->
                                           IF j = g THEN after ELSE GroupRendered(j)],
                      images |-> images,
                      last |-> [ fn |-> "DebugRender", group |-> g, scale |-> scale,
                                 before |-> GroupRendered(g), after |-> after,
                                 drawn |-> IF compose THEN Len(images[after].draws) ELSE 0,
                                 SubImage |-> cam ] ]
              /\ gameMap' = [gameMap EXCEPT !.ScaledCam = cam]
    /\ UNCHANGED <<query, codec, rev, pc, idx, ret, result>>

NextRender ==
    \/ ReadFails \/ ParseFails \/ ParseRendered \/ LoadTileset \/ DecodeLayer \/ Finish
    \/ SetCamera \/ CallRender \/ CallDebugRender

SpecRender == Init /\ [][NextRender]_vars

\* C17: a successful load leaves PixelWidth = Width * TileWidth and
\* PixelHeight = Height * TileHeight, and every whole-layer surface composed
\* for the map has that pixel size.
C17_WholeLayerSurfaceSize ==
    /\ (pc = "returned" /\ result = Returned("gameMap", "nil")) =>
           /\ gameMap.PixelWidth = gameMap.Width * gameMap.TileWidth
           /\ gameMap.PixelHeight = gameMap.Height * gameMap.TileHeight
    /\ \A i \in 1 .. Len(render.images) :
           render.images[i].whole =>
               /\ render.images[i].Width = gameMap.Width * gameMap.TileWidth
               /\ render.images[i].Height = gameMap.Height * gameMap.TileHeight

\* the step is a Render call on layer k
RenderStep(k) ==
    /\ render' # render
    /\ render'.last.fn = "Render"
    /\ render'.last.layer = k

\* C18: a Render call on a layer composes a new whole-layer surface exactly
\* when the layer has no Rendered surface yet or the call passes refresh = true;
\* any other call draws no tile and leaves the layer's Rendered handle and
\* every surface as they were.
C18_ComposedOnFirstUseOrRefresh ==
    [][ \A k \in 1 .. Len(gameMap.Layers) :
          RenderStep(k) =>
            LET composed == Len(render'.images) = Len(render.images) + 1 IN
            /\ composed <=> (Rendered(k) = NoImage \/ render'.last.refresh)
            /\ composed =>
                  /\ render'.Rendered[k] = Len(render'.images)
                  /\ render'.Rendered[k] # Rendered(k)
                  /\ render'.last.drawn = Len(gameMap.Layers[k].Tiles)
            /\ ~composed =>
                  /\ render'.last.drawn = 0
                  /\ render'.Rendered[k] = Rendered(k)
                  /\ render'.images = render.images
            /\ \A j \in 1 .. Len(gameMap.Layers) :
                  j # k => render'.Rendered[j] = Rendered(j) ]_vars

C18_Witness ==
    /\ render.last.fn = "Render"
    /\ ~render.last.refresh
    /\ render.last.before # NoImage
    /\ render.last.drawn = 0
    /\ Rendered(render.last.layer) = render.last.before
    /\ Len(render.images) = 2
    /\ Len(gameMap.Layers[render.last.layer].Tiles) = 2

-----------------------------------------------------------------------------
\* Renderer of the viewport iteration (src/unnamed/part_000, lines 823-937)

\* int(float64(a) * scale)
MulScale(a, scale) == GoDiv(a * scale.num, scale.den)

\* if x0 < 0 { x0 = 0 }; if x0 > layer.Width { x0 = layer.Width }
ClampMin(v, size) ==
    LET v0 == IF v < 0 THEN 0 ELSE v IN
    IF v0 > size THEN size ELSE v0

\* if x1 < 0 { x1 = 0 }; if x1 < layer.Width { x1 = layer.Width }
ClampMax(v, size) ==
    LET v0 == IF v < 0 THEN 0 ELSE v IN
    IF v0 < size THEN size ELSE v0

\* [panic, rect]: the integer division panics on a zero tile dimension
getTileRectangleFromAbsolutePixel(rectangle, layer, tileWidth, tileHeight) ==
    IF tileWidth = 0 \/ tileHeight = 0
    THEN [panic |-> TRUE, rect |-> Rectangle(0, 0, 0, 0)]
    ELSE [panic |-> FALSE,
          rect |-> ImageRect(ClampMin(GoDiv(rectangle.Min.X, tileWidth), layer.Width),
                             ClampMin(GoDiv(rectangle.Min.Y, tileHeight), layer.Height),
                             ClampMax(GoDiv(rectangle.Max.X, tileWidth), layer.Width),
                             ClampMax(GoDiv(rectangle.Max.Y, tileHeight), layer.Height))]

\* the condition of the drawing loop of Render
IsVisible(tile, visibleTiles) ==
    /\ tile.X >= visibleTiles.Min.X /\ tile.X <= visibleTiles.Max.X
    /\ tile.Y >= visibleTiles.Min.Y /\ tile.Y <= visibleTiles.Max.Y

RECURSIVE VisibleFrom(_, _, _)
VisibleFrom(tiles, visibleTiles, j) ==
    IF j > Len(tiles) THEN <<>>
    ELSE (IF IsVisible(tiles[j], visibleTiles) THEN <<tiles[j]>> ELSE <<>>)
         \o VisibleFrom(tiles, visibleTiles, j + 1)

\* Layer.Render(gameMap, camera, scale) of the viewport iteration:
\* [panic, camera, visibleTiles, image], camera being the rectangle as widened
\* for the scale and image what the call returns
ViewportRender(l, map, camera, scale) ==
    LET camWidth == camera.Max.X - camera.Min.X
        camHeight == camera.Max.Y - camera.Min.Y
        widthDiff == DivScale(camWidth, scale) - camWidth
        heightDiff == DivScale(camHeight, scale) - camHeight
        cam == Rectangle(camera.Min.X, camera.Min.Y,
                         camera.Max.X + widthDiff, camera.Max.Y + heightDiff)
        window == getTileRectangleFromAbsolutePixel(cam, l, map.TileWidth, map.TileHeight)
        visibleTiles == window.rect
        xOffset == visibleTiles.Min.X * map.TileWidth - cam.Min.X
        yOffset == visibleTiles.Min.Y * map.TileHeight - cam.Min.Y
        drawn == VisibleFrom(l.Tiles, visibleTiles, 1)
        width == camWidth + widthDiff
        height == camHeight + heightDiff
    IN  IF window.panic
        THEN [panic |-> TRUE, camera |-> cam, visibleTiles |-> visibleTiles,
              image |-> NoImage]
        ELSE [panic |-> FALSE, camera |-> cam, visibleTiles |-> visibleTiles,
              image |->
                [ whole |-> FALSE,
                  Width |-> IF scale = Scale(1, 1) THEN width ELSE MulScale(width, scale),
                  Height |-> IF scale = Scale(1, 1) THEN height ELSE MulScale(height, scale),
                  draws |-> [j \in 1 .. Len(drawn) |->
                                [ X |-> xOffset + drawn[j].X * map.TileWidth,
                                  Y |-> yOffset + drawn[j].Y * map.TileHeight,
                                  tile |-> Point(drawn[j].X, drawn[j].Y),
                                  img |-> AtlasImage(map, drawn[j]) ]] ]]

\* Layer.RenderWHoleLayer(gameMap): the image it returns
RenderWHoleLayer(l, map) ==
    [ whole |-> TRUE, Width |-> map.PixelWidth, Height |-> map.PixelHeight,
      draws |-> [j \in 1 .. Len(l.Tiles) |->
                    [ X |-> l.Tiles[j].X * map.TileWidth,
                      Y |-> l.Tiles[j].Y * map.TileHeight,
                      tile |-> Point(l.Tiles[j].X, l.Tiles[j].Y),
                      img |-> AtlasImage(map, l.Tiles[j]) ]] ]

CameraCoordinates == {0 - 16, 0, 32, 64}

Cameras ==
    { Rectangle(x0, y0, x1, y1) :
        x0 \in CameraCoordinates, y0 \in CameraCoordinates,
        x1 \in CameraCoordinates, y1 \in CameraCoordinates } \cap
    { r \in [Min : [X : CameraCoordinates, Y : CameraCoordinates],
              Max : [X : CameraCoordinates, Y : CameraCoordinates]] :
        r.Min.X < r.Max.X /\ r.Min.Y < r.Max.Y }

\* the nine cells of a 3x3 layer, the middle one empty
NineCells ==
    Pack(2, FALSE, FALSE, FALSE) \o Pack(3, FALSE, FALSE, FALSE) \o Pack(2, FALSE, FALSE, FALSE)
    \o Pack(3, FALSE, FALSE, FALSE) \o Pack(0, FALSE, FALSE, FALSE) \o Pack(3, FALSE, FALSE, FALSE)
    \o Pack(2, FALSE, FALSE, FALSE) \o Pack(3, FALSE, FALSE, FALSE) \o Pack(2, FALSE, FALSE, FALSE)

\* 3x3 maps of 16 pixel tiles, and one whose tilewidth attribute is absent
ViewportDocuments ==
    { [ ParsedMap(<< ParsedTileset(2, Tsx(TRUE, TRUE, 16, 16, 4, 2)) >>,
                  << ParsedLayer(<<3, 3>>, Base64, "", [valid |-> TRUE, bytes |-> NineCells]),
                     ParsedLayer(<<3, 3>>, Base64, "",
                         [valid |-> TRUE, bytes |-> Pack(5, FALSE, FALSE, FALSE)]) >>,
                  OneGroup)
        EXCEPT !.Width = 3, !.Height = 3, !.TileWidth = tw, !.TileHeight = 16 ] :
      tw \in {0, 16} }

ParseViewport == ParseFrom(ViewportDocuments)

\* gameMap.Layers[k].Render(gameMap, camera, scale); the layer keeps no image,
\* render holds the one the call returned
CallViewportRender ==
    /\ pc = "returned"
    /\ result = Returned("gameMap", "nil")
    /\ rev = "viewport"
    /\ \E k \in 1 .. Len(gameMap.Layers), camera \in Cameras, scale \in Scales :
          LET out == ViewportRender(gameMap.Layers[k], gameMap, camera, scale) IN
          /\ render' = [ NoRender EXCEPT
                           !.images = IF out.panic THEN <<>> ELSE << out.image >>,
                           !.last = [ fn |-> "Render", layer |-> k, camera |-> camera,
                                      scale |-> scale, panic |-> out.panic,
                                      rectangle |-> out.camera,
                                      visibleTiles |-> out.visibleTiles ] ]
          /\ pc' = IF out.panic THEN "crashed" ELSE pc
    /\ UNCHANGED <<query, codec, rev, gameMap, idx, ret, result>>

\* gameMap.Layers[k].RenderWHoleLayer(gameMap)
CallRenderWHoleLayer ==
    /\ pc = "returned"
    /\ result = Returned("gameMap", "nil")
    /\ rev = "viewport"
    /\ \E k \in 1 .. Len(gameMap.Layers) :
          render' = [ NoRender EXCEPT
                        !.images = << RenderWHoleLayer(gameMap.Layers[k], gameMap) >>,
                        !.last = [fn |-> "RenderWHoleLayer", layer |-> k] ]
    /\ UNCHANGED <<query, codec, rev, pc, gameMap, idx, ret, result>>

NextViewportRender ==
    \/ ReadFails \/ ParseViewport \/ LoadTileset \/ DecodeLayer \/ Finish
    \/ CallViewportRender \/ CallRenderWHoleLayer

SpecViewportRender == InitViewport /\ [][NextViewportRender]_vars

Clamped(v, size) == IF v < 0 THEN 0 ELSE IF v > size THEN size ELSE v

\* the last call was a viewport Render that returned
ViewportRendered == render.last.fn = "Render" /\ rev = "viewport" /\ ~render.last.panic

\* C19: the tile window of a camera rectangle is the rectangle's bounds divided
\* by the tile dimensions, each coordinate clamped into [0, layer.Width]
\* horizontally and [0, layer.Height] vertically.
C19_WindowIsClamped ==
    ViewportRendered =>
        LET l == gameMap.Layers[render.last.layer]
            r == render.last.rectangle
            w == render.last.visibleTiles
        IN  /\ w.Min.X = Clamped(r.Min.X \div gameMap.TileWidth, l.Width)
            /\ w.Min.Y = Clamped(r.Min.Y \div gameMap.TileHeight, l.Height)
            /\ w.Max.X = Clamped(r.Max.X \div gameMap.TileWidth, l.Width)
            /\ w.Max.Y = Clamped(r.Max.Y \div gameMap.TileHeight, l.Height)

\* the Tile's grid cell has pixels inside the camera rectangle
CellInCamera(tile, camera) ==
    /\ tile.X * gameMap.TileWidth < camera.Max.X
    /\ (tile.X + 1) * gameMap.TileWidth > camera.Min.X
    /\ tile.Y * gameMap.TileHeight < camera.Max.Y
    /\ (tile.Y + 1) * gameMap.TileHeight > camera.Min.Y

\* C20: at scale 1 the viewport Render draws exactly the Tiles of the layer
\* whose grid cell lies in the camera rectangle, each at its map pixel position
\* minus the camera's top-left corner.
C20_DrawsExactlyTheWindow ==
    (ViewportRendered /\ render.last.scale = Scale(1, 1)) =>
        LET l == gameMap.Layers[render.last.layer]
            camera == render.last.camera
            draws == render.images[1].draws
        IN  /\ { draws[j].tile : j \in 1 .. Len(draws) } =
                  { Point(l.Tiles[j].X, l.Tiles[j].Y) :
                      j \in { i \in 1 .. Len(l.Tiles) : CellInCamera(l.Tiles[i], camera) } }
            /\ \A j \in 1 .. Len(draws) :
                  /\ draws[j].X = draws[j].tile.X * gameMap.TileWidth - camera.Min.X
                  /\ draws[j].Y = draws[j].tile.Y * gameMap.TileHeight - camera.Min.Y

-----------------------------------------------------------------------------
\* Order and outcome of the load

\* a DecodeData call is about to be made or was made
DecodingStarted == pc = "layers" \/ Len(ret.DecodeData) > 0

\* C25: no DecodeData call is made before LoadFromTsx has returned nil for
\* every tileset of the map, and no step changes the tileset list once
\* decoding has started.
C25_TilesetsBeforeLayers ==
    /\ [](DecodingStarted =>
            /\ Len(ret.LoadFromTsx) = Len(gameMap.Tilesets)
            /\ \A k \in 1 .. Len(ret.LoadFromTsx) : ret.LoadFromTsx[k] = "nil")
    /\ [][DecodingStarted => gameMap'.Tilesets = gameMap.Tilesets]_vars

C25_Witness ==
    /\ Len(gameMap.Tilesets) = 2
    /\ Len(ret.DecodeData) = 2
    /\ Len(gameMap.Layers[1].Tiles) = 1

\* C28: in a decoded layer of width W and height H whose payload has at most
\* W*H cells, every Tile has 0 <= X < W and 0 <= Y < H and no two Tiles share
\* a grid position.
C28_TilesKeyedByPosition ==
    \A k \in DecodedLayers :
        LET l == gameMap.Layers[k] IN
        (PlainBase64(l) /\ ret.DecodeData[k].err = "nil"
            /\ l.Width >= 1 /\ l.Height >= 1
            /\ WholeCells(StreamOf(l)) <= l.Width * l.Height) =>
            /\ \A j \in 1 .. Len(l.Tiles) :
                  /\ l.Tiles[j].X \in 0 .. (l.Width - 1)
                  /\ l.Tiles[j].Y \in 0 .. (l.Height - 1)
            /\ \A i, j \in 1 .. Len(l.Tiles) :
                  (l.Tiles[i].X = l.Tiles[j].X /\ l.Tiles[i].Y = l.Tiles[j].Y) => i = j

\* the document was read and parsed, and the load went through every tileset
\* and every layer without an error
AllResolvedAndDecoded ==
    /\ idx >= 1
    /\ pc \in {"finish", "returned", "crashed"}
    /\ Len(ret.LoadFromTsx) = Len(gameMap.Tilesets)
    /\ Len(ret.DecodeData) = Len(gameMap.Layers)
    /\ \A k \in 1 .. Len(ret.LoadFromTsx) : ret.LoadFromTsx[k] = "nil"
    /\ \A k \in 1 .. Len(ret.DecodeData) : ret.DecodeData[k].err = "nil"

\* C29: a load whose tilesets all resolve and whose layers all decode ends by
\* returning the map with a nil error, with or without an object group in the
\* document.
C29_LoadsWithoutObjectGroup ==
    (AllResolvedAndDecoded /\ pc # "finish") =>
        (pc = "returned" /\ result = Returned("gameMap", "nil"))

\* C26: for a description that is read and an image that loads, LoadFromTsx
\* returns an error when the column count is 0 while TileCount > 0, and returns
\* nil with an empty index when TileCount = 0.
C26_InconsistentGeometryIsError ==
    \A k \in 1 .. Len(ret.LoadFromTsx) :
        LET t == gameMap.Tilesets[k]
            tsx == t.Source
        IN  (tsx.readable /\ tsx.imageOk) =>
                /\ (tsx.TileCount > 0 /\ tsx.Columns = 0) => ret.LoadFromTsx[k] = "error"
                /\ tsx.TileCount = 0 =>
                       (ret.LoadFromTsx[k] = "nil" /\ DOMAIN t.Tiles = {})

\* C27: when the parser reports a failure on the external tileset description,
\* LoadFromTsx returns an error and LoadFromFile returns that error.
C27_MalformedTsxIsError ==
    \A k \in 1 .. Len(ret.LoadFromTsx) :
        (gameMap.Tilesets[k].Source.readable /\ gameMap.Tilesets[k].Source.parse # "ok") =>
            /\ ret.LoadFromTsx[k] = "error"
            /\ pc = "returned"
            /\ result = Returned("nil", "error")

-----------------------------------------------------------------------------
\* Composition claims

\* C21: on a successfully loaded map every Tile a Render call draws has an
\* atlas sub-image: no DrawImage is handed a nil image.
C21_EveryDrawnTileHasImage ==
    \A k \in 1 .. Len(gameMap.Layers) :
        Rendered(k) # NoImage =>
            \A j \in 1 .. Len(render.images[Rendered(k)].draws) :
                ~render.images[Rendered(k)].draws[j].img.nil

\* C22: once the map is loaded, no Render or DebugRender call changes a field
\* of the TmxMap, a Tileset or a layer's Tiles; the camera position and bounds
\* are the caller's to set.
C22_CompositionIsReadOnly ==
    [][ (pc = "returned" /\ result = Returned("gameMap", "nil")) =>
            [gameMap' EXCEPT !.CameraPosition = gameMap.CameraPosition,
                             !.CameraBounds = gameMap.CameraBounds] = gameMap ]_vars

-----------------------------------------------------------------------------
\* Render and DebugRender statement by statement, called from two goroutines
\* (src/ebitmx.go, lines 237-262 and 314-342)

MaxCalls == 1

\* o.Rendered / l.Rendered of the receiver
Cache(fn, target) == IF fn = "Render" THEN Rendered(target) ELSE GroupRendered(target)

\* what the composition loop ranges over: l.Tiles or o.Objects
Items(fn, target) ==
    IF fn = "Render" THEN gameMap.Layers[target].Tiles
    ELSE gameMap.ObjectGroups[target].Objects

\* the DrawImage call of iteration i
DrawOf(fn, target, i) ==
    IF fn = "Render" THEN WholeLayerImage(gameMap, gameMap.Layers[target]).draws[i]
    ELSE DebugImage(gameMap, gameMap.ObjectGroups[target]).draws[i]

\* rendered := ebiten.NewImage(gameMap.PixelWidth, gameMap.PixelHeight)
NewSurface ==
    [whole |-> TRUE, Width |-> gameMap.PixelWidth, Height |-> gameMap.PixelHeight,
     draws |-> <<>>]

LoopDoneAtOnce(i, n) == TRUE

\* the range loop has gone through all n items
LoopDone(i, n) == i > n

Receivers ==
    { <<"Render", k>> : k \in 1 .. Len(gameMap.Layers) }
    \cup { <<"DebugRender", g>> : g \in 1 .. Len(gameMap.ObjectGroups) }

ConcurrentScales == { Scale(1, 1), Scale(2, 1) }

\* one map: a layer of two tiles, an object group without objects
ConcurrentDocuments ==
    { ParsedMap(<< ParsedTileset(2, GoodTsx) >>,
                << ParsedLayer(<<2, 2>>, Base64, "",
                      [valid |-> TRUE,
                       bytes |-> Pack(2, FALSE, FALSE, FALSE) \o Pack(3, FALSE, FALSE, FALSE)]) >>,
                OneGroup) }

ParseConcurrent == ParseFrom(ConcurrentDocuments)

\* no goroutine has called the renderer yet
Quiescent == \A p \in Procs : render.calls[p] = IdleCall

\* the caller positions the camera, once, before it starts the goroutines
PlaceCamera ==
    /\ Quiescent
    /\ gameMap.CameraBounds = EmptyMap.CameraBounds
    /\ SetCameraTo({Point(2, 1)}, {Rectangle(0, 0, 4, 2)})

SetCall(p, call) == render' = [render EXCEPT !.calls[p] = call]

\* goroutine p calls Render(gameMap, scale, refresh) on a layer or
\* DebugRender(gameMap, scale) on an object group
Enter(p) ==
    /\ pc = "returned"
    /\ result = Returned("gameMap", "nil")
    /\ rev = "ebitmx"
    /\ gameMap.CameraBounds # EmptyMap.CameraBounds
    /\ render.calls[p].pc \in {"idle", "done"}
    /\ render.calls[p].n < MaxCalls
    /\ \E receiver \in Receivers, scale \in ConcurrentScales, refresh \in BOOLEAN :
          /\ (receiver[1] = "DebugRender") => ~refresh
          /\ SetCall(p, [IdleCall EXCEPT !.pc = "test", !.n = render.calls[p].n + 1,
                                         !.fn = receiver[1], !.target = receiver[2],
                                         !.scale = scale, !.refresh = refresh])
    /\ UNCHANGED <<query, codec, rev, pc, gameMap, idx, ret, result>>

\* if l.Rendered == nil || refresh (DebugRender: if o.Rendered == nil), and
\* the NewImage of the composition branch
Test(p) ==
    LET c == render.calls[p] IN
    /\ c.pc = "test"
    /\ IF NeedsCompose(Cache(c.fn, c.target), c.refresh)
       THEN /\ Len(render.images) < MaxImages
            /\ render' = [render EXCEPT
                   !.images = Append(@, NewSurface),
                   !.calls[p] = [c EXCEPT !.pc = "draw", !.i = 1,
                                          !.rendered = Len(render.images) + 1]]
       ELSE SetCall(p, [c EXCEPT !.pc = "scaled"])
    /\ UNCHANGED <<query, codec, rev, pc, gameMap, idx, ret, result>>

\* one iteration of the composition loop: rendered.DrawImage(...)
Draw(p) ==
    LET c == render.calls[p] IN
    /\ c.pc = "draw"
    /\ ~LoopDone(c.i, Len(Items(c.fn, c.target)))
    /\ render' = [render EXCEPT
           !.images[c.rendered].draws = Append(@, DrawOf(c.fn, c.target, c.i)),
           !.calls[p] = [c EXCEPT !.i = c.i + 1]]
    /\ UNCHANGED <<query, codec, rev, pc, gameMap, idx, ret, result>>

\* l.Rendered = rendered (o.Rendered = rendered)
Publish(p) ==
    LET c == render.calls[p] IN
    /\ c.pc = "draw"
    /\ LoopDone(c.i, Len(Items(c.fn, c.target)))
    /\ render' =
          IF c.fn = "Render"
          THEN [render EXCEPT
                  !.Rendered = [j \in 1 .. Len(gameMap.Layers) |->
                                  IF j = c.target THEN c.rendered ELSE Rendered(j)],
                  !.calls[p] = [c EXCEPT !.pc = "scaled"]]
          ELSE [render EXCEPT
                  !.GroupRendered = [j \in 1 .. Len(gameMap.ObjectGroups) |->
                                       IF j = c.target THEN c.rendered ELSE GroupRendered(j)],
                  !.calls[p] = [c EXCEPT !.pc = "scaled"]]
    /\ UNCHANGED <<query, codec, rev, pc, gameMap, idx, ret, result>>

\* scaledWidth := ...; scaledHeight := ...;
\* gameMap.ScaledCam.Min.X = gameMap.CameraPosition.X - scaledWidth/2
WriteMinX(p) ==
    LET c == render.calls[p]
        scaledWidth == DivScale(gameMap.CameraBounds.Max.X, c.scale)
        scaledHeight == DivScale(gameMap.CameraBounds.Max.Y, c.scale)
    IN  /\ c.pc = "scaled"
        /\ SetCall(p, [c EXCEPT !.pc = "minX", !.scaledWidth = scaledWidth,
                                !.scaledHeight = scaledHeight])
        /\ gameMap' = [gameMap EXCEPT
               !.ScaledCam.Min.X = gameMap.CameraPosition.X - GoDiv(scaledWidth, 2)]
        /\ UNCHANGED <<query, codec, rev, pc, idx, ret, result>>

\* gameMap.ScaledCam.Min.Y = gameMap.CameraPosition.Y - scaledHeight/2
WriteMinY(p) ==
    LET c == render.calls[p] IN
    /\ c.pc = "minX"
    /\ SetCall(p, [c EXCEPT !.pc = "minY"])
    /\ gameMap' = [gameMap EXCEPT
           !.ScaledCam.Min.Y = gameMap.CameraPosition.Y - GoDiv(c.scaledHeight, 2)]
    /\ UNCHANGED <<query, codec, rev, pc, idx, ret, result>>

\* gameMap.ScaledCam.Max.X = gameMap.ScaledCam.Min.X + scaledWidth
WriteMaxX(p) ==
    LET c == render.calls[p] IN
    /\ c.pc = "minY"
    /\ SetCall(p, [c EXCEPT !.pc = "maxX"])
    /\ gameMap' = [gameMap EXCEPT
           !.ScaledCam.Max.X = gameMap.ScaledCam.Min.X + c.scaledWidth]
    /\ UNCHANGED <<query, codec, rev, pc, idx, ret, result>>

\* gameMap.ScaledCam.Max.Y = gameMap.ScaledCam.Min.Y + scaledHeight
WriteMaxY(p) ==
    LET c == render.calls[p] IN
    /\ c.pc = "maxX"
    /\ SetCall(p, [c EXCEPT !.pc = "maxY"])
    /\ gameMap' = [gameMap EXCEPT
           !.ScaledCam.Max.Y = gameMap.ScaledCam.Min.Y + c.scaledHeight]
    /\ UNCHANGED <<query, codec, rev, pc, idx, ret, result>>

\* return l.Rendered.SubImage(gameMap.ScaledCam)
Return(p) ==
    LET c == render.calls[p] IN
    /\ c.pc = "maxY"
    /\ SetCall(p, [c EXCEPT !.pc = "done",
                            !.out = [ returned |-> TRUE,
                                      image |-> Cache(c.fn, c.target),
                                      draws |-> render.images[Cache(c.fn, c.target)].draws,
                                      SubImage |-> gameMap.ScaledCam ]])
    /\ UNCHANGED <<query, codec, rev, pc, gameMap, idx, ret, result>>

NextConcurrent ==
    \/ ParseConcurrent \/ LoadTileset \/ DecodeLayer \/ Finish \/ PlaceCamera
    \/ \E p \in Procs :
          \/ Enter(p) \/ Test(p) \/ Draw(p) \/ Publish(p)
          \/ WriteMinX(p) \/ WriteMinY(p) \/ WriteMaxX(p) \/ WriteMaxY(p) \/ Return(p)

SpecConcurrent == Init /\ [][NextConcurrent]_vars

\* goroutine p has returned from its first call, and the other goroutines made
\* no call or one call on another layer or object group
FirstCallsOnDifferentReceivers(p) ==
    /\ render.calls[p].pc = "done"
    /\ render.calls[p].n = 1
    /\ \A q \in Procs \ {p} :
          \/ render.calls[q].n = 0
          \/ /\ render.calls[q].n = 1
             /\ <<render.calls[q].fn, render.calls[q].target>> #
                    <<render.calls[p].fn, render.calls[p].target>>

\* C23: a Render or DebugRender call that runs while another goroutine renders
\* a different layer or object group of the same map returns the sub-image for
\* the camera rectangle of its own scale: the camera position minus half the
\* scaled bounds, extended by the scaled bounds.
C23_OwnCameraRectangle ==
    \A p \in Procs :
        FirstCallsOnDifferentReceivers(p) =>
            render.calls[p].out.SubImage = ScaledCamOf(gameMap, render.calls[p].scale)

\* surface h holds every tile of layer k
Complete(k, h) == Len(render.images[h].draws) = Len(gameMap.Layers[k].Tiles)

\* C24: the surface published in a layer's Rendered always holds all the
\* layer's tiles, so does the surface a Render call returns, and no step draws
\* onto a surface that is published: a refresh composes a fresh surface and
\* swaps the handle.
C24_RefreshSwapsTheHandle ==
    /\ [](\A k \in 1 .. Len(gameMap.Layers) :
             Rendered(k) # NoImage => Complete(k, Rendered(k)))
    /\ [](\A p \in Procs :
             (render.calls[p].pc = "done" /\ render.calls[p].fn = "Render") =>
                 /\ render.calls[p].out.image # NoImage
                 /\ Len(render.calls[p].out.draws) =
                        Len(gameMap.Layers[render.calls[p].target].Tiles))
    /\ [][\A k \in 1 .. Len(gameMap.Layers) :
             Rendered(k) # NoImage =>
                 render'.images[Rendered(k)] = render.images[Rendered(k)]]_vars

\* one goroutine is half way through a refresh of the layer whose previous
\* surface the other goroutine has just returned
C24_Witness ==
    /\ render.calls[1].pc = "draw"
    /\ render.calls[1].fn = "Render"
    /\ render.calls[1].refresh
    /\ render.calls[1].i = 2
    /\ Len(render.images[render.calls[1].rendered].draws) = 1
    /\ Rendered(render.calls[1].target) # NoImage
    /\ Rendered(render.calls[1].target) # render.calls[1].rendered
    /\ render.calls[2].pc = "done"
    /\ render.calls[2].fn = "Render"
    /\ render.calls[2].out.image = Rendered(render.calls[1].target)
====
